---- MODULE Spec2Model ----
(***************************************************************************)
(* Model of src/main.py: fuzz_coordinate, process_file and main.           *)
(*                                                                         *)
(* Text is a sequence of one-character strings.  Numbers are exact         *)
(* fixed-point integers counted in 1/Unit of a degree; the random draws    *)
(* are taken from angles and values of u whose sine, cosine and square     *)
(* root are exact rationals with denominator 5, and radii are multiples of *)
(* 25 units, so every product below is exact.  Binary64 rounding of the    *)
(* sums and products is not represented.                                   *)
(***************************************************************************)
EXTENDS Integers, Sequences, FiniteSets, TLC

\* ------------------------------------------------------------------ bounds
MaxLines == 2
MaxLineLen == 4

\* --------------------------------------------------------- number encoding
\* one unit is 1/2500 degree: four decimal places, in steps of 0.0004
Unit == 25 * 100
LatLimit == 90
LonLimit == 180

Abs(x) == IF x < 0 THEN -x ELSE x

\* ------------------------------------------------------------ text helpers
Digits == <<"0", "1", "2", "3", "4", "5", "6", "7", "8", "9">>

IsDigit(c) == \E i \in 1..10 : Digits[i] = c

DigitVal(c) == (CHOOSE i \in 1..10 : Digits[i] = c) - 1

IsSpace(c) == c = " "

RECURSIVE LStrip(_)
LStrip(s) == IF s # <<>> /\ IsSpace(Head(s)) THEN LStrip(Tail(s)) ELSE s

RECURSIVE RStrip(_)
RStrip(s) ==
    IF s # <<>> /\ IsSpace(s[Len(s)]) THEN RStrip(SubSeq(s, 1, Len(s) - 1)) ELSE s

\* str.strip() with no argument: removes whitespace at both ends
Strip(s) == RStrip(LStrip(s))

IsPrefix(p, s) == Len(p) <= Len(s) /\ SubSeq(s, 1, Len(p)) = p

\* str.split(sep) for a non-empty sep: a sequence of fields
RECURSIVE SplitFrom(_, _, _)
SplitFrom(s, sep, cur) ==
    IF s = <<>> THEN <<cur>>
    ELSE IF IsPrefix(sep, s)
         THEN <<cur>> \o SplitFrom(SubSeq(s, Len(sep) + 1, Len(s)), sep, <<>>)
         ELSE SplitFrom(Tail(s), sep, Append(cur, Head(s)))

\* str.split(sep): ValueError("empty separator") when sep is empty
Split(s, sep) ==
    IF sep = <<>> THEN [ok |-> FALSE, parts |-> <<>>]
    ELSE [ok |-> TRUE, parts |-> SplitFrom(s, sep, <<>>)]

\* sep.join(parts)
RECURSIVE Join(_, _)
Join(sep, parts) ==
    IF parts = <<>> THEN <<>>
    ELSE IF Len(parts) = 1 THEN parts[1]
    ELSE parts[1] \o sep \o Join(sep, Tail(parts))

RECURSIVE DigitsVal(_, _)
DigitsVal(s, acc) ==
    IF s = <<>> THEN acc ELSE DigitsVal(Tail(s), 10 * acc + DigitVal(Head(s)))

\* float(x) on text: surrounding whitespace is ignored, then an optional
\* sign and decimal digits; anything else raises ValueError.  (Text with a
\* decimal point, an exponent, "inf" or "nan" is outside the input alphabets
\* used here.)
float(x) ==
    LET t == Strip(x)
        signed == t # <<>> /\ Head(t) \in {"-", "+"}
        body == IF signed THEN Tail(t) ELSE t
        sign == IF signed /\ Head(t) = "-" THEN -1 ELSE 1
    IN  IF body # <<>> /\ \A i \in 1..Len(body) : IsDigit(body[i])
        THEN [ok |-> TRUE, v |-> sign * DigitsVal(body, 0) * Unit]
        ELSE [ok |-> FALSE, v |-> 0]

RECURSIVE NatStr(_)
NatStr(n) == IF n < 10 THEN <<Digits[n + 1]>> ELSE Append(NatStr(n \div 10), Digits[(n % 10) + 1])

RECURSIVE DropZeros(_)
DropZeros(s) ==
    IF Len(s) > 1 /\ s[Len(s)] = "0" THEN DropZeros(SubSeq(s, 1, Len(s) - 1)) ELSE s

\* str(x): an int prints its digits, a float prints the shortest decimal
\* with at least one fractional digit
str(x) ==
    LET a == Abs(x.v)
        sgn == IF x.v < 0 THEN <<"-">> ELSE <<>>
        frac == (a % Unit) * (10000 \div Unit)
        frac4 == <<Digits[(frac \div 1000) + 1], Digits[((frac \div 100) % 10) + 1],
                   Digits[((frac \div 10) % 10) + 1], Digits[(frac % 10) + 1]>>
    IN  IF x.int THEN sgn \o NatStr(a \div Unit)
        ELSE sgn \o NatStr(a \div Unit) \o <<".">> \o DropZeros(frac4)

\* ------------------------------------------------------------ random draws
\* angle = 2*pi*random.random(): one direction in each quadrant and two on
\* the axes, with rational sine and cosine given as numerators over 5
Angles == 0..5

Sin5(angle) == <<0, 3, 4, -3, -5, -4>>[angle + 1]

Cos5(angle) == <<5, 4, -3, -4, 0, 3>>[angle + 1]

\* u = random.random() in [0, 1), given as a numerator over 25; the draws are
\* perfect squares, so that math.sqrt(u) is a numerator over 5
Us == {0, 9, 16}

Sqrt5(u) == CHOOSE k \in 0..5 : k * k = u

\* ---------------------------------------------------------- fuzz_coordinate
\* the clip without its min(): only the lower bound is applied
ClipLowerOnly(limit, x) ==
    IF x <= -limit * Unit THEN [v |-> -limit * Unit, int |-> TRUE]
    ELSE [v |-> x, int |-> FALSE]

\* max(-90, min(90, x)) and max(-180, min(180, x)): the bound is returned as
\* the int literal whenever x is not strictly inside the range
Clip(limit, x) ==
    IF x >= limit * Unit THEN [v |-> limit * Unit, int |-> TRUE]
    ELSE IF x <= -limit * Unit THEN [v |-> -limit * Unit, int |-> TRUE]
    ELSE [v |-> x, int |-> FALSE]

\* the distance with the radius taken for a half-width: twice too long
DistanceDoubled5(radius, u) == 2 * radius * Sqrt5(u)

\* distance = radius * math.sqrt(random.random()), kept as a numerator over 5
Distance5(radius, u) == radius * Sqrt5(u)

Offset(radius, u, trig5) == (Distance5(radius, u) * trig5) \div 25

NoValue == [v |-> 0, int |-> FALSE]

Raise(kind) ==
    [err |-> kind, lat |-> 0, lon |-> 0, pre_lat |-> 0, pre_lon |-> 0,
     new_latitude |-> NoValue, new_longitude |-> NoValue]

\* fuzz_coordinate with the radius check written "radius < 0"
fuzz_coordinate_zero_radius(latitude, longitude, radius, angle, u) ==
    LET flat == float(latitude)
        flon == float(longitude)
        pre_lat == flat.v + Offset(radius, u, Sin5(angle))
        pre_lon == flon.v + Offset(radius, u, Cos5(angle))
    IN  IF ~flat.ok \/ ~flon.ok THEN Raise("numeric")
        ELSE IF ~(-LatLimit * Unit <= flat.v /\ flat.v <= LatLimit * Unit)
             THEN Raise("latitude_range")
        ELSE IF ~(-LonLimit * Unit <= flon.v /\ flon.v <= LonLimit * Unit)
             THEN Raise("longitude_range")
        ELSE IF radius < 0 THEN Raise("radius")
        ELSE [err |-> "none", lat |-> flat.v, lon |-> flon.v,
              pre_lat |-> pre_lat, pre_lon |-> pre_lon,
              new_latitude |-> Clip(LatLimit, pre_lat),
              new_longitude |-> Clip(LonLimit, pre_lon)]

fuzz_coordinate(latitude, longitude, radius, angle, u) ==
    LET flat == float(latitude)
        flon == float(longitude)
        pre_lat == flat.v + Offset(radius, u, Sin5(angle))
        pre_lon == flon.v + Offset(radius, u, Cos5(angle))
    IN  IF ~flat.ok \/ ~flon.ok THEN Raise("numeric")
        ELSE IF ~(-LatLimit * Unit <= flat.v /\ flat.v <= LatLimit * Unit)
             THEN Raise("latitude_range")
        ELSE IF ~(-LonLimit * Unit <= flon.v /\ flon.v <= LonLimit * Unit)
             THEN Raise("longitude_range")
        ELSE IF radius <= 0 THEN Raise("radius")
        ELSE [err |-> "none", lat |-> flat.v, lon |-> flon.v,
              pre_lat |-> pre_lat, pre_lon |-> pre_lon,
              new_latitude |-> Clip(LatLimit, pre_lat),
              new_longitude |-> Clip(LonLimit, pre_lon)]

\* ------------------------------------------------------------------- state
VARIABLES
    f_latitude,     \* fuzz_coordinate called directly: the latitude argument
    f_longitude,    \* the longitude argument
    f_radius,       \* the radius argument
    f_result,       \* what the call produced; err = "pending" before the call
    file_exists,    \* whether input_file can be opened
    nread,          \* number of lines infile has yielded so far
    header,         \* args.header
    lat_col,        \* args.lat_col
    lon_col,        \* args.lon_col
    delimiter,      \* args.delimiter
    radius,         \* args.radius
    pc,             \* position in main / process_file: "start", "header", "loop" (at
                    \* the for statement), "next" (a loop body has ended), "raised", "exit"
    line_number,    \* enumerate(infile, start=1) counter
    line,           \* the line the iteration got from infile, without its line ending
    outcome,        \* the branch the iteration took
    ret,            \* what fuzz_coordinate returned to the iteration
    nonempty,       \* number of lines yielded to the loop that were not ""
    out_src,        \* outfile: for each line written, the line_number it was written for
    written,        \* outfile: the text the iteration wrote, <<>> if none
    log,            \* records emitted through logging (level and line number; the
                    \* INFO record of the encoding detection is left out)
    exc,            \* exception propagating out of process_file
    exit_status     \* process exit status, -1 while the process runs

fvars == <<f_latitude, f_longitude, f_radius, f_result>>

cfgvars == <<file_exists, header, lat_col, lon_col, delimiter, radius>>

loopvars == <<line_number, line, outcome, ret, nonempty, out_src, written>>

pvars == <<file_exists, nread, header, lat_col, lon_col, delimiter, radius, pc,
           line_number, line, outcome, ret, nonempty, out_src, written, log, exc,
           exit_status>>

vars == <<f_latitude, f_longitude, f_radius, f_result, file_exists, nread,
          header, lat_col, lon_col, delimiter, radius, pc, line_number, line,
          outcome, ret, nonempty, out_src, written, log, exc, exit_status>>

\* ------------------------------------------------------------------ inputs
Alphabet == {"9", " ", ","}

Lines == UNION {[1..k -> Alphabet] : k \in 0..MaxLineLen}

Delimiters == {<<",">>, <<" ">>, <<>>}

\* (lat_col, lon_col): the default, the same column twice, the two swapped,
\* and negative indices
ColumnPairs == {<<0, 1>>, <<0, 0>>, <<1, 0>>, <<-2, 0>>, <<-1, -2>>}

\* args.radius: not positive, the default 0.01, and more than the whole range
Radii == {0, 25, 400 * Unit}

\* the command line's defaults, and the run configurations that differ from
\* them in the delimiter, in the column indices or in the radius
Defaults == [delimiter |-> <<",">>, lat_col |-> 0, lon_col |-> 1, radius |-> 25]

Configs ==
    {[Defaults EXCEPT !.delimiter = d] : d \in Delimiters}
        \cup {[Defaults EXCEPT !.lat_col = c[1], !.lon_col = c[2]] : c \in ColumnPairs}
        \cup {[Defaults EXCEPT !.radius = r] : r \in Radii}

FuzzTexts ==
    {<<"0">>, <<"4", "5">>, <<"9", "0">>, <<"-", "9", "0">>, <<"9", "1">>,
     <<"-", "9", "1">>, <<"1", "8", "0">>, <<"-", "1", "8", "0">>,
     <<"1", "8", "1">>, <<"a", "b", "c">>, <<" ", "9", " ">>, <<>>}

FuzzRadii == {-25, 0, 25, Unit, 400 * Unit}

\* ------------------------------------------------------------ process_file
\* parts[i] with Python's index rule; 0 stands for IndexError
PyIndex(parts, i) ==
    IF 0 <= i /\ i < Len(parts) THEN i + 1
    ELSE IF i < 0 /\ -Len(parts) <= i THEN Len(parts) + i + 1
    ELSE 0

Max(a, b) == IF a >= b THEN a ELSE b

LogRec(level, n) == [level |-> level, line |-> n]

\* a write that puts the new line in front of the earlier ones
WriteInFront(src, n) == <<n>> \o src

\* outfile.write(text + '\n') for the line numbered n
Write(src, n) == Append(src, n)

NoReturn == Raise("not_called")

\* the body of the for loop for the line raw numbered n: the branch taken,
\* the text written (if any), the records logged
LoopBody(raw, n, angle, u) ==
    LET stripped == Strip(raw)
        sp == Split(stripped, delimiter)
        parts == sp.parts
        li == PyIndex(parts, lat_col)
        lo == PyIndex(parts, lon_col)
        fz == fuzz_coordinate(parts[li], parts[lo], radius, angle, u)
        parts1 == [parts EXCEPT ![li] = str(fz.new_latitude)]
        parts2 == [parts1 EXCEPT ![lo] = str(fz.new_longitude)]
    IN  IF stripped = <<>>
        THEN [kind |-> "empty", wrote |-> FALSE, text |-> <<>>, ret |-> NoReturn,
              logs |-> <<>>]
        ELSE IF ~sp.ok
        THEN [kind |-> "split_error", wrote |-> TRUE, text |-> stripped,
              ret |-> NoReturn, logs |-> <<LogRec("ERROR", n)>>]
        ELSE IF Len(parts) <= Max(lat_col, lon_col)
        THEN [kind |-> "columns", wrote |-> TRUE, text |-> stripped,
              ret |-> NoReturn, logs |-> <<LogRec("WARNING", n)>>]
        ELSE IF li = 0 \/ lo = 0
        THEN [kind |-> "index_error", wrote |-> FALSE, text |-> <<>>,
              ret |-> NoReturn, logs |-> <<LogRec("ERROR", 0)>>]
        ELSE IF fz.err = "numeric"
        THEN [kind |-> "fuzz_error", wrote |-> TRUE, text |-> stripped, ret |-> fz,
              logs |-> <<LogRec("ERROR", 0), LogRec("ERROR", n)>>]
        ELSE IF fz.err # "none"
        THEN [kind |-> "fuzz_error", wrote |-> TRUE, text |-> stripped, ret |-> fz,
              logs |-> <<LogRec("ERROR", n)>>]
        ELSE [kind |-> "fuzzed", wrote |-> TRUE, text |-> Join(delimiter, parts2),
              ret |-> fz, logs |-> <<>>]

\* ------------------------------------------------------------------ actions
FuzzIdle ==
    /\ f_latitude = <<>>
    /\ f_longitude = <<>>
    /\ f_radius = 0
    /\ f_result = Raise("pending")

ProcIdle ==
    /\ file_exists = FALSE
    /\ nread = 0
    /\ header = FALSE
    /\ lat_col = 0
    /\ lon_col = 1
    /\ delimiter = <<",">>
    /\ radius = 25
    /\ pc = "off"
    /\ line_number = 0
    /\ line = <<>>
    /\ outcome = "none"
    /\ ret = NoReturn
    /\ nonempty = 0
    /\ out_src = <<>>
    /\ written = <<>>
    /\ log = <<>>
    /\ exc = "none"
    /\ exit_status = -1

Init ==
    /\ FuzzIdle
    /\ file_exists \in BOOLEAN
    /\ nread = 0
    /\ header \in BOOLEAN
    /\ \E args \in Configs :
        /\ lat_col = args.lat_col
        /\ lon_col = args.lon_col
        /\ delimiter = args.delimiter
        /\ radius = args.radius
    /\ pc = "start"
    /\ line_number = 0
    /\ line = <<>>
    /\ outcome = "none"
    /\ ret = NoReturn
    /\ nonempty = 0
    /\ out_src = <<>>
    /\ written = <<>>
    /\ log = <<>>
    /\ exc = "none"
    /\ exit_status = -1

\* open(input_file, ...) raises FileNotFoundError
OpenMissing ==
    /\ pc = "start"
    /\ ~file_exists
    /\ log' = Append(log, LogRec("ERROR", 0))
    /\ exc' = "FileNotFoundError"
    /\ pc' = "raised"
    /\ UNCHANGED <<cfgvars, nread, loopvars, exit_status>>
    /\ UNCHANGED fvars

\* both files open; the output is opened truncating
Open ==
    /\ pc = "start"
    /\ file_exists
    /\ out_src' = <<>>
    /\ written' = <<>>
    /\ pc' = IF header THEN "header" ELSE "loop"
    /\ UNCHANGED <<cfgvars, nread, line_number, line, outcome, ret, nonempty, log,
                   exc, exit_status>>
    /\ UNCHANGED fvars

\* next(infile) on a file that has a first line, whatever the line is
SkipHeader ==
    /\ pc = "header"
    /\ nread < MaxLines
    /\ \E h \in Lines :
        /\ nread' = nread + 1
        /\ pc' = "loop"
    /\ UNCHANGED <<cfgvars, loopvars, log, exc, exit_status>>
    /\ UNCHANGED fvars

\* next(infile) on a file with no line at all raises StopIteration, which the
\* "except Exception" clause logs and re-raises
SkipHeaderStop ==
    /\ pc = "header"
    /\ log' = Append(log, LogRec("ERROR", 0))
    /\ exc' = "StopIteration"
    /\ pc' = "raised"
    /\ UNCHANGED <<cfgvars, nread, loopvars, exit_status>>
    /\ UNCHANGED fvars

\* one iteration of the for loop that ends normally (continue, the end of the
\* body, or the "except ValueError" clause); random.random() is only reached
\* once validation has passed, so only the "fuzzed" branch draws
Iteration ==
    /\ pc = "loop"
    /\ nread < MaxLines
    /\ \E raw \in Lines :
        \E first \in {LoopBody(raw, line_number + 1, 0, 0)} :
            /\ first.kind # "index_error"
            /\ \E body \in (IF first.kind # "fuzzed" THEN {first}
                            ELSE {LoopBody(raw, line_number + 1, angle, u) :
                                      angle \in Angles, u \in Us}) :
                /\ line' = raw
                /\ line_number' = line_number + 1
                /\ nread' = nread + 1
                /\ nonempty' = IF raw = <<>> THEN nonempty ELSE nonempty + 1
                /\ outcome' = body.kind
                /\ ret' = body.ret
                /\ out_src' = IF body.wrote THEN Write(out_src, line_number + 1)
                              ELSE out_src
                /\ written' = body.text
                /\ log' = log \o body.logs
    /\ pc' = "next"
    /\ UNCHANGED <<cfgvars, exc, exit_status>>
    /\ UNCHANGED fvars

\* control returns to the for statement: the iteration's locals are dead,
\* each is rebound before it is read again
NextIteration ==
    /\ pc = "next"
    /\ pc' = "loop"
    /\ line' = <<>>
    /\ outcome' = "none"
    /\ ret' = NoReturn
    /\ written' = <<>>
    /\ UNCHANGED <<cfgvars, nread, line_number, nonempty, out_src, log, exc, exit_status>>
    /\ UNCHANGED fvars

\* one iteration in which parts[lat_col] or parts[lon_col] raises IndexError
\* (a negative index that reaches before the first field; an index that is
\* too large is caught by the column count check):
\* "except ValueError" does not catch it, "except Exception" logs it and
\* re-raises, nothing is written for the line
IterationIndexError ==
    /\ pc = "loop"
    /\ nread < MaxLines
    /\ lat_col < 0 \/ lon_col < 0
    /\ \E raw \in Lines :
        \E body \in {LoopBody(raw, line_number + 1, 0, 0)} :
            /\ body.kind = "index_error"
            /\ line' = raw
            /\ line_number' = line_number + 1
            /\ nread' = nread + 1
            /\ nonempty' = nonempty + 1
            /\ outcome' = body.kind
            /\ ret' = body.ret
            /\ written' = body.text
            /\ log' = log \o body.logs
    /\ exc' = "IndexError"
    /\ pc' = "raised"
    /\ UNCHANGED <<cfgvars, out_src, exit_status>>
    /\ UNCHANGED fvars

\* infile is exhausted: the with block closes, process_file returns, main
\* logs the success and the process ends with status 0
EndOfFile ==
    /\ pc = "loop"
    /\ log' = Append(log, LogRec("INFO", 0))
    /\ exit_status' = 0
    /\ pc' = "exit"
    /\ UNCHANGED <<cfgvars, nread, loopvars, exc>>
    /\ UNCHANGED fvars

\* main's except clause: sys.exit(1)
MainFailure ==
    /\ pc = "raised"
    /\ log' = Append(log, LogRec("ERROR", 0))
    /\ exit_status' = 1
    /\ pc' = "exit"
    /\ UNCHANGED <<cfgvars, nread, loopvars, exc>>
    /\ UNCHANGED fvars

Next ==
    \/ OpenMissing
    \/ Open
    \/ SkipHeader
    \/ SkipHeaderStop
    \/ Iteration
    \/ NextIteration
    \/ IterationIndexError
    \/ EndOfFile
    \/ MainFailure

Spec == Init /\ [][Next]_vars

\* --------------------------------------------- fuzz_coordinate on its own
FuzzInit ==
    /\ ProcIdle
    /\ f_latitude \in FuzzTexts
    /\ f_longitude \in FuzzTexts
    /\ f_radius \in FuzzRadii
    /\ f_result = Raise("pending")

FuzzCall ==
    /\ f_result.err = "pending"
    /\ \E angle \in Angles, u \in Us :
        f_result' = fuzz_coordinate(f_latitude, f_longitude, f_radius, angle, u)
    /\ UNCHANGED <<f_latitude, f_longitude, f_radius>>
    /\ UNCHANGED pvars

FuzzNext == FuzzCall

FuzzSpec == FuzzInit /\ [][FuzzNext]_vars

\* ================================================================== claims
InRange(limit, x) == -limit * Unit <= x /\ x <= limit * Unit

Called == f_result.err # "pending"

\* C1: whenever fuzz_coordinate returns a pair, the returned latitude lies in
\* [-90, 90] and the returned longitude in [-180, 180], also when the point
\* is on a boundary and the radius exceeds the whole range.
C1_ResultInRange ==
    f_result.err = "none" =>
        /\ InRange(LatLimit, f_result.new_latitude.v)
        /\ InRange(LonLimit, f_result.new_longitude.v)

\* a call on the boundary latitude 90 with radius 400 whose offset left the range
C1_Witness ==
    /\ f_result.err = "none"
    /\ f_latitude = <<"9", "0">>
    /\ f_radius = 400 * Unit
    /\ f_result.pre_lat > LatLimit * Unit
    /\ f_result.pre_lon < -LonLimit * Unit

\* C2: fuzz_coordinate fails exactly when a precondition is violated, with the
\* error named for the precondition: non-numeric text, latitude outside
\* [-90, 90], longitude outside [-180, 180], radius <= 0; otherwise it returns
\* a pair.  fuzz(91, 0, 0.01), fuzz(0, 181, 0.01), fuzz("abc", 0, 0.01) and
\* fuzz(0, 0, 0) fail with the range, range, non-numeric and radius errors.
C2_FailsExactlyOnPrecondition ==
    LET lat == float(f_latitude)
        lon == float(f_longitude)
        numeric == lat.ok /\ lon.ok
        zero == <<"0">>
    IN  Called =>
            /\ (f_result.err = "none") <=>
                   (/\ numeric
                    /\ InRange(LatLimit, lat.v)
                    /\ InRange(LonLimit, lon.v)
                    /\ f_radius > 0)
            /\ (f_result.err = "numeric") <=> ~numeric
            /\ f_result.err = "latitude_range" => numeric /\ ~InRange(LatLimit, lat.v)
            /\ f_result.err = "longitude_range" => numeric /\ ~InRange(LonLimit, lon.v)
            /\ f_result.err = "radius" => numeric /\ f_radius <= 0
            /\ (f_latitude = <<"9", "1">> /\ f_longitude = zero /\ f_radius = 25)
                   => f_result.err = "latitude_range"
            /\ (f_latitude = zero /\ f_longitude = <<"1", "8", "1">> /\ f_radius = 25)
                   => f_result.err = "longitude_range"
            /\ (f_latitude = <<"a", "b", "c">> /\ f_longitude = zero /\ f_radius = 25)
                   => f_result.err = "numeric"
            /\ (f_latitude = zero /\ f_longitude = zero /\ f_radius = 0)
                   => f_result.err = "radius"

\* fuzz(0, 0, 0) was called and failed on the radius
C2_Witness ==
    /\ f_latitude = <<"0">>
    /\ f_longitude = <<"0">>
    /\ f_radius = 0
    /\ f_result.err = "radius"

C3_PassedThroughVerbatim ==
    (pc = "next" /\ line # <<>> /\ outcome \in {"columns", "fuzz_error"})
        => written = line

\* C4: once the files are open, no line makes process_file raise: after a
\* line has been read nothing propagates and the exit status is never 1.
C4_NoLineAborts ==
    line_number > 0 => (exc = "none" /\ exit_status # 1)

\* C5: when process_file completes, the number of lines written equals the
\* number of non-empty lines read after the header skip.
C5_OneLinePerNonEmptyLine ==
    (pc = "exit" /\ exit_status = 0) => Len(out_src) = nonempty

\* C6: with the header flag set the first line is discarded whatever the file
\* holds: the skip never fails, and right after it nothing has been logged,
\* written or counted.
C6_HeaderSkipNeverFails ==
    header =>
        /\ exc # "StopIteration"
        /\ (pc = "loop" /\ nread = 1 /\ line_number = 0)
               => (log = <<>> /\ out_src = <<>> /\ nonempty = 0)

\* C8: every line after the header skip that is not written in fuzzed form
\* has a log record carrying its line number, a warning when it has too few
\* fields and an error otherwise; a fuzzed line has none.  (Stated for the
\* lines that hold more than whitespace.)
C8_EveryUnfuzzedLineLogged ==
    (pc \in {"next", "raised"} /\ line_number > 0 /\ Strip(line) # <<>>) =>
        IF outcome = "fuzzed"
        THEN \A i \in 1..Len(log) : log[i].line # line_number
        ELSE \E i \in 1..Len(log) :
                /\ log[i].line = line_number
                /\ log[i].level = IF outcome = "columns" THEN "WARNING" ELSE "ERROR"

\* C9: a fuzzed output line has as many fields as the input line, every field
\* other than the latitude and longitude fields is unchanged (whitespace
\* included), and the two fields hold the string forms of the fuzzed values
\* (stated for the longitude when both indices name the same field).
C9_OtherFieldsUnchanged ==
    (pc = "next" /\ outcome = "fuzzed") =>
        LET inp == Split(line, delimiter).parts
            out == Split(written, delimiter).parts
            li == PyIndex(inp, lat_col)
            lo == PyIndex(inp, lon_col)
        IN  /\ Len(out) = Len(inp)
            /\ \A i \in 1..Len(inp) : i \notin {li, lo} => out[i] = inp[i]
            /\ out[lo] = str(ret.new_longitude)
            /\ li # lo => out[li] = str(ret.new_latitude)

====
